---- MODULE Spec2Model ----
\* Flowpad core: a model of the Note Store (packages/core/src/db.ts, class
\* FlowpadDB) as a state machine.  The tables of the SQLite file are the
\* state; every public method is one action.  Strings that the code formats
\* and parses (ISO timestamps, the JSON text of the tags column) are modelled
\* structurally, so that formatting followed by parsing is a computation.
EXTENDS Integers, Sequences, FiniteSets, TLC

\* ---------------------------------------------------------------- schema
\* initialize(): the four tables and their columns.  (TLC keeps the fields of
\* a record in the order in which their names first occur in the module; every
\* record below lists its fields in the order they have here.)
NotesTable ==
    [id |-> "TEXT PRIMARY KEY", text |-> "TEXT NOT NULL", created_at |-> "TEXT NOT NULL",
     app_name |-> "TEXT", window_title |-> "TEXT", url |-> "TEXT",
     project_hint |-> "TEXT", type_hint |-> "TEXT", tags |-> "TEXT",
     project_tag |-> "TEXT", status |-> "TEXT DEFAULT 'new'"]
SettingsTable == [key |-> "TEXT PRIMARY KEY", value |-> "TEXT NOT NULL"]
SavedDigestsTable ==
    [id |-> "TEXT PRIMARY KEY", created_at |-> "TEXT NOT NULL", date |-> "TEXT NOT NULL",
     summary |-> "TEXT NOT NULL", saved_at |-> "TEXT NOT NULL"]
CustomTagsTable ==
    [id |-> "TEXT PRIMARY KEY", created_at |-> "TEXT NOT NULL",
     name |-> "TEXT NOT NULL UNIQUE", color |-> "TEXT", used_count |-> "INTEGER DEFAULT 0"]

\* ---------------------------------------------------------------- bounds
\* Clock resolution: ticks per calendar day.
DayLen == 2
\* How many times the clock advances in a run.
MaxTicks == 2
\* Identifiers uuidv4() hands out in a run (rows inserted).
MaxCreates == 2
\* Longest tag list a caller passes.
MaxTags == 2
\* The highest used_count a custom tag reaches.
MaxUsed == 1

\* Longest note text given to the classifier, in words.
MaxWords == 3

\* How long a getCurrentContext call is followed, in seconds.
MaxClock == 8

\* Longest text a provider answers an optimizeContent call with, in characters.
MaxContent == 3
\* Callers whose create-note requests are in flight together.
MaxCallers == 2
\* Calls of the set-ai-config handler in a run.
MaxSets == 2
\* Longest text a provider answers an assistant chat with, in tokens.
MaxRaw == 5
\* Calls of the AI service in a run.
MaxCalls == 1

\* ---------------------------------------------------------- program constants
\* cleanupCompletedNotes: sevenDaysAgo.setDate(sevenDaysAgo.getDate() - 7)
RetentionDays == 7

\* getActiveWindowWithRetry: maxRetries = 2, the 3000 ms timeout of an attempt,
\* the 1000 ms wait before the next attempt (in seconds).
MaxRetries == 2
TimeoutSecs == 3
BackoffSecs == 1

\* ------------------------------------------------------------ optional values
\* undefined / null / SQL NULL is the empty sequence, a present value v is <<v>>.
NULL == <<>>
Some(v) == <<v>>
IsNull(o) == o = <<>>

\* ------------------------------------------------------------------ time
\* The clock starts late enough for "seven days ago" to be after the epoch.
StartClock == (RetentionDays + 1) * DayLen
\* Offsets of local time from UTC, in ticks (half a day west, none, half a day east
\* at the default resolution).
TzOffsets == {0 - (DayLen \div 2), 0, DayLen \div 2}

\* Date.prototype.toISOString(): "YYYY-MM-DDTHH:mm:ss.sssZ", the UTC date and the
\* UTC time of day of the instant t.
ToISOString(t) == [date |-> t \div DayLen, time |-> t % DayLen]
\* iso.split('T')[0] and SQLite's date(iso): the part before the 'T'.
DatePart(iso) == iso.date
\* SQLite's TEXT comparison a < b of two ISO strings: lexicographic, the date
\* characters first, then the time characters.
IsoLessByDateOnly(a, b) == a.date < b.date
IsoLess(a, b) == \/ a.date < b.date
                 \/ a.date = b.date /\ a.time < b.time
\* The instant an ISO string denotes (new Date(iso).getTime()).
IsoInstant(iso) == iso.date * DayLen + iso.time
\* The local calendar day of the instant t in a zone tzo ticks east of UTC.
LocalDay(t, tzo) == (t + tzo) \div DayLen
\* new Date() followed by setDate(getDate() - 7): the same local wall-clock time
\* seven local calendar days earlier, as an instant.
SevenDaysAgo(t, tzo) == ((t + tzo) - RetentionDays * DayLen) - tzo

\* ------------------------------------------------------------------ JSON
\* A string is a sequence of one-character strings.  JSON.stringify of a
\* string[]: '[' , the elements quoted and escaped, separated by ',' , ']'.
RECURSIVE EscapeChars(_)
EscapeChars(s) ==
    IF s = <<>> THEN <<>>
    ELSE (IF Head(s) \in {"\"", "\\"} THEN <<"\\", Head(s)>> ELSE <<Head(s)>>)
         \o EscapeChars(Tail(s))
QuoteString(s) == <<"\"">> \o EscapeChars(s) \o <<"\"">>
RECURSIVE StringifyElems(_)
StringifyElems(tags) ==
    IF tags = <<>> THEN <<>>
    ELSE IF Len(tags) = 1 THEN QuoteString(Head(tags))
    ELSE QuoteString(Head(tags)) \o <<",">> \o StringifyElems(Tail(tags))
JSONStringify(tags) == <<"[">> \o StringifyElems(tags) \o <<"]">>

\* JSON.parse of the text of a string[]: a recursive-descent reader.
\* ParseString reads from position i, just after an opening quote.
RECURSIVE ParseString(_, _, _)
ParseString(js, i, acc) ==
    IF js[i] = "\"" THEN [parsed |-> acc, rest |-> i + 1]
    ELSE IF js[i] = "\\" THEN ParseString(js, i + 2, Append(acc, js[i + 1]))
    ELSE ParseString(js, i + 1, Append(acc, js[i]))
RECURSIVE ParseElems(_, _, _)
ParseElems(js, i, acc) ==
    LET r == ParseString(js, i + 1, <<>>)
    IN  IF js[r.rest] = "," THEN ParseElems(js, r.rest + 1, Append(acc, r.parsed))
        ELSE Append(acc, r.parsed)
JSONParse(js) == IF js[2] = "]" THEN <<>> ELSE ParseElems(js, 2, <<>>)

\* ------------------------------------------------------------- classifier
\* A note text is a sequence of words; a marker of the classifier's patterns
\* is one word.  toLowerCase folds the upper-case spellings.
ToLowerCase(w) ==
    CASE w = "TODO" -> "todo"
      [] w = "Risk" -> "risk"
      [] w = "IDEA" -> "idea"
      [] OTHER -> w
\* The alternatives of the four patterns.  The Chinese markers are written in
\* pinyin: mingtian (tomorrow), jide (remember), genjin (follow up), xuyao
\* (need), yaozuo (to do); fengxian (risk), wenti (problem), cuowu (error),
\* zuse (blocked); xiangfa (idea), keyikaolv (could consider), yexu (maybe),
\* jianyi (suggest), youhua (optimise); ganjue (feel), xinqing (mood), lei
\* (tired), jusang (down), kaixin (happy), yali (pressure), jiaolv (anxious).
TodoMarkers == {"mingtian", "later", "jide", "follow up", "genjin", "xuyao", "yaozuo"}
IssueMarkers == {"fengxian", "risk", "wenti", "bug", "cuowu", "error", "blocker", "zuse"}
IdeaMarkers == {"xiangfa", "idea", "keyikaolv", "yexu", "jianyi", "youhua"}
FeelingMarkers == {"ganjue", "xinqing", "lei", "jusang", "kaixin", "yali", "jiaolv"}
Matches(t, markers) == \E i \in 1..Len(t) : t[i] \in markers
inferTypeHintIssueFirst(text) ==
    LET t == [i \in 1..Len(text) |-> ToLowerCase(text[i])]
    IN  IF Matches(t, IssueMarkers) THEN "issue"
        ELSE IF (Len(t) > 0 /\ t[1] = "todo") \/ Matches(t, TodoMarkers) THEN "todo"
        ELSE IF Matches(t, IdeaMarkers) THEN "idea"
        ELSE IF Matches(t, FeelingMarkers) THEN "feeling"
        ELSE "note"
inferTypeHint(text) ==
    LET t == [i \in 1..Len(text) |-> ToLowerCase(text[i])]
    IN  IF (Len(t) > 0 /\ t[1] = "todo") \/ Matches(t, TodoMarkers) THEN "todo"
        ELSE IF Matches(t, IssueMarkers) THEN "issue"
        ELSE IF Matches(t, IdeaMarkers) THEN "idea"
        ELSE IF Matches(t, FeelingMarkers) THEN "feeling"
        ELSE "note"

\* ------------------------------------------------------------------ state
VARIABLES
    notes,        \* table notes: a set of rows, id is the primary key
    settings,     \* table settings: a function from the stored keys to their values
    custom_tags,  \* table custom_tags: a set of rows, name is UNIQUE
    open,         \* this.db.open: the connection has not been closed
    now,          \* the wall clock, in ticks since the epoch
    ticks,        \* how many times the clock has advanced
    tz,           \* the offset of the local time zone from UTC, in ticks
    idSeq,        \* how many identifiers uuidv4() has handed out
    saved_digests,\* table saved_digests: a set of rows, id is the primary key
    capture,      \* ContextCapture: the getCurrentContext call in progress
    gateway,      \* AIService: its configuration and the requests it has issued
    requests,     \* the create-note handler: what each caller's invocation is at
    created,      \* history: the ids createNote has stored, the latest created_at
    last          \* history: the latest call and its result

dbVars == <<notes, settings, custom_tags, saved_digests, open>>
envVars == <<now, ticks, tz, idSeq>>
appVars == <<capture, gateway, requests>>
vars == <<notes, settings, custom_tags, open, now, ticks, tz, idSeq, saved_digests,
          capture, gateway, requests, created, last>>

\* A call that returned v, and a call that threw.
Returned(v) == [threw |-> FALSE, ret |-> v]
Threw == [threw |-> TRUE]

\* The record of a call: again says that the call before it was the same call
\* with the same arguments, with no clock advance in between.
Log(op, arg, res) ==
    last' = [op |-> op, arg |-> arg, res |-> res,
             again |-> (last.op = op /\ last.arg = arg)]

\* ContextCapture between calls, and the application before an AIService exists
\* (this.aiService = null).
CaptureIdle ==
    [pc |-> "idle", attempt |-> 0, clock |-> 0, pending |-> {}, timers |-> {},
     backoff |-> NULL, events |-> <<>>, window |-> NULL, result |-> NULL]
GatewayUnconfigured == [config |-> NULL, requests |-> 0, calls |-> 0]
\* The callers of the create-note handler, none of them in a call.
Callers == 1..MaxCallers
NoRequest == [pc |-> "idle", input |-> NULL, response |-> NULL]

Init ==
    /\ notes = {}
    /\ settings = <<>>
    /\ custom_tags = {}
    /\ open = TRUE
    /\ now = StartClock
    /\ ticks = 0
    /\ tz \in TzOffsets
    /\ idSeq = 0
    /\ saved_digests = {}
    /\ capture = CaptureIdle
    /\ gateway = GatewayUnconfigured
    /\ requests = [caller \in Callers |-> NoRequest]
    /\ created = [ids |-> {}, latest |-> NULL]
    /\ last = [op |-> "new", arg |-> <<>>, res |-> Returned(<<>>), again |-> FALSE]

\* ---------------------------------------------------- connection and statements
\* isConnectionOpen(): this.db && !this.db.readonly && this.db.open
isConnectionOpen == open
\* getOrCreateStatement(key, sql) followed by run/get/all.  close() empties the
\* statement cache, so after it every statement is prepared again, and
\* db.prepare throws on a closed connection; so does a statement of a closed
\* connection.
StatementsSurviveClose == FALSE
StmtThrows == ~open

\* uuidv4(): an identifier no earlier call has returned.
RowCountPlusOne == Cardinality(notes) + 1
uuidv4 == idSeq + 1

\* The clock advances by d ticks.
Tick(d) ==
    /\ ticks < MaxTicks
    /\ now' = now + d
    /\ ticks' = ticks + 1
    /\ last' = [op |-> "tick", arg |-> <<>>, res |-> Returned(<<>>), again |-> FALSE]
    /\ UNCHANGED <<dbVars, tz, idSeq, created, appVars>>

\* --------------------------------------------------------------------- notes
\* parseNoteRow(row): the Note handed to callers.
parseNoteRow(row) ==
    [row EXCEPT !.tags = IF IsNull(row.tags) THEN <<>> ELSE JSONParse(row.tags[1]),
                !.project_tag = IF IsNull(row.project_tag) \/ row.project_tag = Some("")
                                THEN NULL ELSE row.project_tag,
                !.status = IF IsNull(row.status) \/ row.status = Some("")
                           THEN Some("new") ELSE row.status]

\* The row createNote(input) inserts.
NewRow(input) ==
    LET tags == IF IsNull(input.tags) THEN <<>> ELSE input.tags[1]
    IN  [id |-> uuidv4,
         text |-> input.text,
         created_at |-> ToISOString(now),
         app_name |-> IF IsNull(input.context) THEN NULL ELSE input.context[1].app_name,
         window_title |-> IF IsNull(input.context) THEN NULL
                          ELSE input.context[1].window_title,
         url |-> IF IsNull(input.context) THEN NULL ELSE input.context[1].url,
         project_hint |-> NULL,
         type_hint |-> IF IsNull(input.type_hint) \/ input.type_hint = Some("")
                       THEN Some(inferTypeHint(input.text)) ELSE input.type_hint,
         tags |-> IF Len(tags) > 0 THEN Some(JSONStringify(tags)) ELSE NULL,
         project_tag |-> IF IsNull(input.project_tag) \/ input.project_tag = Some("")
                         THEN NULL ELSE input.project_tag,
         status |-> Some("new")]

\* createNote(input): INSERT INTO notes; the primary key rejects a second row
\* with the same id.  Returns the note (tags as the list passed in).
createNote(input) ==
    LET row == NewRow(input)
    IN  /\ idSeq < MaxCreates
        /\ IF StmtThrows \/ \E r \in notes : r.id = row.id
           THEN /\ UNCHANGED <<notes, idSeq, created>>
                /\ Log("createNote", input, Threw)
           ELSE /\ notes' = notes \cup {row}
                /\ idSeq' = idSeq + 1
                /\ created' = [ids |-> created.ids \cup {row.id},
                               latest |-> Some(row.created_at)]
                /\ Log("createNote", input,
                       Returned([row EXCEPT !.tags = IF IsNull(input.tags) THEN <<>>
                                                     ELSE input.tags[1]]))
        /\ UNCHANGED <<settings, custom_tags, open, now, ticks, tz, saved_digests, appVars>>

\* A statement UPDATE/DELETE ... WHERE id = ?: `after` is the table it leaves;
\* the method returns changes > 0.
WriteById(op, arg, id, after) ==
    /\ IF StmtThrows
       THEN /\ UNCHANGED notes
            /\ Log(op, arg, Threw)
       ELSE /\ notes' = after
            /\ Log(op, arg, Returned(\E r \in notes : r.id = id))
    /\ UNCHANGED <<settings, custom_tags, open, envVars, created, saved_digests, appVars>>

\* deleteNote(id): DELETE FROM notes WHERE id = ?
deleteNote(id) ==
    WriteById("deleteNote", <<>>, id, {r \in notes : r.id # id})

\* updateNote(id, text): UPDATE notes SET text = ? WHERE id = ?
updateNoteDroppingContext(id, text) ==
    WriteById("updateNote", [id |-> id, text |-> text], id,
              {IF r.id = id THEN [r EXCEPT !.text = text, !.app_name = NULL] ELSE r :
                  r \in notes})
updateNote(id, text) ==
    WriteById("updateNote", [id |-> id, text |-> text], id,
              {IF r.id = id THEN [r EXCEPT !.text = text] ELSE r : r \in notes})

\* updateNoteStatus(id, status): UPDATE notes SET status = ? WHERE id = ?
updateNoteStatus(id, status) ==
    WriteById("updateNoteStatus", <<>>, id,
              {IF r.id = id THEN [r EXCEPT !.status = Some(status)] ELSE r : r \in notes})

\* The enumerations of a set of notes in created_at descending order
\* (ORDER BY created_at DESC; rows with equal created_at in either order).
DescOrders(S) ==
    {q \in [1..Cardinality(S) -> S] :
        /\ \A i, j \in 1..Cardinality(S) : i # j => q[i] # q[j]
        /\ \A i, j \in 1..Cardinality(S) :
               i < j => ~IsoLess(q[i].created_at, q[j].created_at)}

\* getTodayNotes(): today is the date part of the ISO string of the instant of
\* the call; the rows whose date(created_at) equals it, newest first.
TodayRowsByLocalToday == {r \in notes : DatePart(r.created_at) = LocalDay(now, tz)}
TodayRows == {r \in notes : DatePart(r.created_at) = DatePart(ToISOString(now))}
getTodayNotes ==
    /\ IF StmtThrows
       THEN Log("getTodayNotes", <<>>, Threw)
       ELSE \E q \in DescOrders(TodayRows) :
                Log("getTodayNotes", <<>>,
                    Returned([i \in 1..Len(q) |-> parseNoteRow(q[i])]))
    /\ UNCHANGED <<dbVars, envVars, created, appVars>>

\* getNotes(limit?, offset?): all rows newest first; LIMIT ? OFFSET ? when both
\* arguments are truthy, LIMIT ? when limit is, no LIMIT otherwise (undefined
\* and 0 are falsy).
Truthy(n) == ~IsNull(n) /\ n[1] # 0
Page(q, limit, offset) ==
    IF Truthy(limit) /\ Truthy(offset)
    THEN SubSeq(q, offset[1] + 1, IF offset[1] + limit[1] < Len(q)
                                  THEN offset[1] + limit[1] ELSE Len(q))
    ELSE IF Truthy(limit)
    THEN SubSeq(q, 1, IF limit[1] < Len(q) THEN limit[1] ELSE Len(q))
    ELSE q
getNotes(limit, offset) ==
    /\ IF StmtThrows
       THEN Log("getNotes", [limit |-> limit, offset |-> offset], Threw)
       ELSE \E q \in DescOrders(notes) :
                Log("getNotes", [limit |-> limit, offset |-> offset],
                    Returned([i \in 1..Len(Page(q, limit, offset)) |->
                                 parseNoteRow(Page(q, limit, offset)[i])]))
    /\ UNCHANGED <<dbVars, envVars, created, appVars>>

\* cleanupCompletedNotes(): the rows with created_at < cutoff and status 'closed'
\* are selected and deleted one by one; any exception becomes success: false.
CompletedRows ==
    {r \in notes : /\ IsoLess(r.created_at, ToISOString(SevenDaysAgo(now, tz)))
                   /\ r.status = Some("closed")}
\* The rows the loop over completedNotes deletes: one DELETE per selected id.
DeleteOnlyFirst(rows) == IF rows = {} THEN {} ELSE {CHOOSE r \in rows : TRUE}
DeletedByLoop(rows) == rows
cleanupCompletedNotes ==
    /\ IF StmtThrows
       THEN /\ UNCHANGED notes
            /\ Log("cleanupCompletedNotes", <<>>,
                   Returned([success |-> FALSE, deletedCount |-> 0]))
       ELSE IF CompletedRows = {}
       THEN /\ UNCHANGED notes
            /\ Log("cleanupCompletedNotes", <<>>,
                   Returned([success |-> TRUE, deletedCount |-> 0]))
       ELSE /\ notes' = notes \ DeletedByLoop(CompletedRows)
            /\ Log("cleanupCompletedNotes", <<>>,
                   Returned([success |-> TRUE,
                             deletedCount |-> Cardinality(DeletedByLoop(CompletedRows))]))
    /\ UNCHANGED <<settings, custom_tags, open, envVars, created, saved_digests, appVars>>

\* updateNoteTags(id, tags): UPDATE notes SET tags = ? WHERE id = ?, with the
\* JSON text of the list, of the empty list too.
updateNoteTagsAppending(id, tags) ==
    WriteById("updateNoteTags", [id |-> id, tags |-> tags], id,
              {IF r.id = id
               THEN [r EXCEPT !.tags = Some(JSONStringify(parseNoteRow(r).tags \o tags))]
               ELSE r : r \in notes})
updateNoteTags(id, tags) ==
    WriteById("updateNoteTags", [id |-> id, tags |-> tags], id,
              {IF r.id = id THEN [r EXCEPT !.tags = Some(JSONStringify(tags))] ELSE r :
                  r \in notes})

\* updateNoteWithTags(id, text, tags?): one transaction that updates the text
\* and, when tags is not undefined, the tags.  db.transaction() throws on a
\* closed connection, outside the try; inside it, the method returns true
\* whenever the transaction did not throw.
updateNoteWithTags(id, text, tags) ==
    /\ IF StmtThrows
       THEN /\ UNCHANGED notes
            /\ Log("updateNoteWithTags", [id |-> id, text |-> text, tags |-> tags], Threw)
       ELSE /\ notes' = {IF r.id = id
                         THEN [r EXCEPT !.text = text,
                                        !.tags = IF IsNull(tags) THEN r.tags
                                                 ELSE Some(JSONStringify(tags[1]))]
                         ELSE r : r \in notes}
            /\ Log("updateNoteWithTags", [id |-> id, text |-> text, tags |-> tags],
                   Returned(TRUE))
    /\ UNCHANGED <<settings, custom_tags, open, envVars, created, saved_digests, appVars>>

\* ------------------------------------------------------------------ settings
\* The value stored under key, or NULL: SELECT value FROM settings WHERE key = ?
StoredValue(key) == IF key \in DOMAIN settings THEN Some(settings[key]) ELSE NULL
\* INSERT OR REPLACE INTO settings (key, value) VALUES (?, ?)
Upsert(key, value) ==
    [k \in DOMAIN settings \cup {key} |-> IF k = key THEN value ELSE settings[k]]

\* setSetting(key, value): returns at once (with a warning) when the connection
\* is not open; an exception of the statement is caught and logged.
setSettingUnguarded(key, value) ==
    /\ IF StmtThrows
       THEN /\ UNCHANGED settings
            /\ Log("setSetting", [key |-> key, value |-> value], Threw)
       ELSE /\ settings' = Upsert(key, value)
            /\ Log("setSetting", [key |-> key, value |-> value], Returned(NULL))
    /\ UNCHANGED <<notes, custom_tags, open, envVars, created, saved_digests, appVars>>
setSetting(key, value) ==
    /\ IF ~isConnectionOpen \/ StmtThrows
       THEN UNCHANGED settings
       ELSE settings' = Upsert(key, value)
    /\ Log("setSetting", [key |-> key, value |-> value], Returned(NULL))
    /\ UNCHANGED <<notes, custom_tags, open, envVars, created, saved_digests, appVars>>

\* getSetting(key): null (with a warning) when the connection is not open or the
\* statement throws; otherwise result?.value || null, and the empty string is
\* falsy.
getSetting(key) ==
    /\ Log("getSetting", [key |-> key],
           Returned(IF ~isConnectionOpen \/ StmtThrows THEN NULL
                    ELSE IF IsNull(StoredValue(key)) \/ StoredValue(key) = Some("")
                    THEN NULL
                    ELSE StoredValue(key)))
    /\ UNCHANGED <<dbVars, envVars, created, appVars>>

\* --------------------------------------------------------------- custom tags
\* tagExists(name): SELECT COUNT(*) FROM custom_tags WHERE name = ? is above 0;
\* the comparison of TEXT is by bytes, so it is case-sensitive.
tagExists(name) == \E t \in custom_tags : t.name = name

\* createCustomTag(name, color?): refuses a name that exists; the INSERT is
\* also refused by the UNIQUE constraint on name (and by the primary key), and
\* every exception becomes a failure result.
DuplicateNameError == [success |-> FALSE, error |-> "name exists"]
DatabaseError == [success |-> FALSE, error |-> "database error"]
DefaultColor == "#3B82F6"
createCustomTagReplacing(name, color) ==
    LET row == [id |-> uuidv4, created_at |-> ToISOString(now), name |-> name,
                color |-> IF IsNull(color) \/ color = Some("") THEN DefaultColor
                          ELSE color[1],
                used_count |-> 0]
    IN  /\ StmtThrows \/ tagExists(name) \/ idSeq < MaxCreates
        /\ IF StmtThrows
           THEN /\ UNCHANGED <<custom_tags, idSeq>>
                /\ Log("createCustomTag", [name |-> name, color |-> color],
                       Returned(DatabaseError))
           ELSE /\ custom_tags' = {t \in custom_tags : t.name # name} \cup {row}
                /\ idSeq' = idSeq + 1
                /\ Log("createCustomTag", [name |-> name, color |-> color],
                       Returned([success |-> TRUE]))
        /\ UNCHANGED <<notes, settings, open, now, ticks, tz, created, saved_digests, appVars>>
createCustomTag(name, color) ==
    LET row == [id |-> uuidv4, created_at |-> ToISOString(now), name |-> name,
                color |-> IF IsNull(color) \/ color = Some("") THEN DefaultColor
                          ELSE color[1],
                used_count |-> 0]
    IN  /\ StmtThrows \/ tagExists(name) \/ idSeq < MaxCreates
        /\ IF StmtThrows
           THEN /\ UNCHANGED <<custom_tags, idSeq>>
                /\ Log("createCustomTag", [name |-> name, color |-> color],
                       Returned(DatabaseError))
           ELSE IF tagExists(name) \/ \E t \in custom_tags : t.name = row.name
           THEN /\ UNCHANGED <<custom_tags, idSeq>>
                /\ Log("createCustomTag", [name |-> name, color |-> color],
                       Returned(DuplicateNameError))
           ELSE IF \E t \in custom_tags : t.id = row.id
           THEN /\ UNCHANGED <<custom_tags, idSeq>>
                /\ Log("createCustomTag", [name |-> name, color |-> color],
                       Returned(DatabaseError))
           ELSE /\ custom_tags' = custom_tags \cup {row}
                /\ idSeq' = idSeq + 1
                /\ Log("createCustomTag", [name |-> name, color |-> color],
                       Returned([success |-> TRUE]))
        /\ UNCHANGED <<notes, settings, open, now, ticks, tz, created, saved_digests, appVars>>

\* deleteCustomTag(id): DELETE FROM custom_tags WHERE id = ?
deleteCustomTag(id) ==
    /\ IF StmtThrows
       THEN /\ UNCHANGED custom_tags
            /\ Log("deleteCustomTag", [id |-> id], Threw)
       ELSE /\ custom_tags' = {t \in custom_tags : t.id # id}
            /\ Log("deleteCustomTag", [id |-> id],
                   Returned(\E t \in custom_tags : t.id = id))
    /\ UNCHANGED <<notes, settings, open, envVars, created, saved_digests, appVars>>

\* incrementTagUsage(tagName): used_count + 1 where name = ?; exceptions are
\* swallowed.
incrementTagUsage(name) ==
    /\ \A t \in custom_tags : t.name = name => t.used_count < MaxUsed
    /\ IF StmtThrows
       THEN UNCHANGED custom_tags
       ELSE custom_tags' = {IF t.name = name
                            THEN [t EXCEPT !.used_count = t.used_count + 1]
                            ELSE t : t \in custom_tags}
    /\ Log("incrementTagUsage", [name |-> name], Returned(NULL))
    /\ UNCHANGED <<notes, settings, open, envVars, created, saved_digests, appVars>>

\* getCustomTags(): SELECT * FROM custom_tags ORDER BY used_count DESC,
\* created_at DESC; the rows in one of the orders the statement allows.
CustomTagOrders ==
    {q \in [1..Cardinality(custom_tags) -> custom_tags] :
        /\ \A i, j \in 1..Cardinality(custom_tags) : i # j => q[i] # q[j]
        /\ \A i, j \in 1..Cardinality(custom_tags) :
               i < j => \/ q[i].used_count > q[j].used_count
                        \/ /\ q[i].used_count = q[j].used_count
                           /\ ~IsoLess(q[i].created_at, q[j].created_at)}
getCustomTags ==
    /\ IF StmtThrows
       THEN Log("getCustomTags", <<>>, Threw)
       ELSE \E q \in CustomTagOrders : Log("getCustomTags", <<>>, Returned(q))
    /\ UNCHANGED <<dbVars, envVars, created, appVars>>

\* ------------------------------------------------------------- saved digests
\* saveDigest(date, summary): INSERT INTO saved_digests; created_at is the date
\* of the digest, saved_at the instant of the call.  Returns the row.
saveDigest(date, summary) ==
    LET row == [id |-> uuidv4, created_at |-> date, date |-> date,
                summary |-> summary, saved_at |-> ToISOString(now)]
    IN  /\ StmtThrows \/ idSeq < MaxCreates
        /\ IF StmtThrows \/ \E d \in saved_digests : d.id = row.id
           THEN /\ UNCHANGED <<saved_digests, idSeq>>
                /\ Log("saveDigest", [date |-> date, summary |-> summary], Threw)
           ELSE /\ saved_digests' = saved_digests \cup {row}
                /\ idSeq' = idSeq + 1
                /\ Log("saveDigest", [date |-> date, summary |-> summary], Returned(row))
        /\ UNCHANGED <<notes, settings, custom_tags, open, now, ticks, tz, created, appVars>>

\* getSavedDigestByDate(date): SELECT * FROM saved_digests WHERE date = ? ORDER
\* BY saved_at DESC LIMIT 1; one of the rows with the greatest saved_at, or
\* nothing.
getSavedDigestByDateOldest(date) ==
    LET rows == {d \in saved_digests : d.date = date}
    IN  /\ IF StmtThrows THEN Log("getSavedDigestByDate", [date |-> date], Threw)
           ELSE IF rows = {} THEN Log("getSavedDigestByDate", [date |-> date], Returned(NULL))
           ELSE \E d \in rows :
                    /\ \A e \in rows : ~IsoLess(e.saved_at, d.saved_at)
                    /\ Log("getSavedDigestByDate", [date |-> date], Returned(Some(d)))
        /\ UNCHANGED <<dbVars, envVars, created, appVars>>
getSavedDigestByDate(date) ==
    LET rows == {d \in saved_digests : d.date = date}
    IN  /\ IF StmtThrows THEN Log("getSavedDigestByDate", [date |-> date], Threw)
           ELSE IF rows = {} THEN Log("getSavedDigestByDate", [date |-> date], Returned(NULL))
           ELSE \E d \in rows :
                    /\ \A e \in rows : ~IsoLess(d.saved_at, e.saved_at)
                    /\ Log("getSavedDigestByDate", [date |-> date], Returned(Some(d)))
        /\ UNCHANGED <<dbVars, envVars, created, appVars>>

\* deleteSavedDigest(id): DELETE FROM saved_digests WHERE id = ?
deleteSavedDigest(id) ==
    /\ IF StmtThrows
       THEN /\ UNCHANGED saved_digests
            /\ Log("deleteSavedDigest", [id |-> id], Threw)
       ELSE /\ saved_digests' = {d \in saved_digests : d.id # id}
            /\ Log("deleteSavedDigest", [id |-> id],
                   Returned(\E d \in saved_digests : d.id = id))
    /\ UNCHANGED <<notes, settings, custom_tags, open, envVars, created, appVars>>

\* close(): clears the statement cache and closes the connection; closing a
\* closed connection does nothing.
closeThrowingWhenClosed ==
    /\ open' = FALSE
    /\ Log("close", <<>>, IF open THEN Returned(<<>>) ELSE Threw)
    /\ UNCHANGED <<notes, settings, custom_tags, envVars, created, saved_digests, appVars>>
close ==
    /\ open' = FALSE
    /\ Log("close", <<>>, Returned(<<>>))
    /\ UNCHANGED <<notes, settings, custom_tags, envVars, created, saved_digests, appVars>>

\* ------------------------------------------------------------ context capture
\* What active-win reports about a window: the owner's name (absent when the
\* data has no owner or no name), the title as a sequence of words (joined by
\* single spaces), the url when the platform gives one.
WindowTitles ==
    {<<>>, <<"Docs">>, <<"Docs", "-", "example.org">>,
     <<"https://example.org/a", "Docs">>, <<"example.org", "Docs">>}
Windows ==
    {[url |-> u, owner |-> o, title |-> t] :
        u \in {NULL, Some(<<"https://example.org/b">>)},
        o \in {NULL, Some("Safari"), Some("Terminal")},
        t \in WindowTitles}

\* extractURL(title, appName): undefined unless the application is a browser;
\* then the first strategy that finds something in the title: a full http(s)
\* URL, the part after the last " - " when it holds a domain, the first domain.
\* (No word of these titles matches the development-platform pattern.)
BrowserApps == {"Google Chrome", "Safari", "Firefox", "Arc"}
HttpUrls == {"https://example.org/a"}
Domains == {"example.org", "https://example.org/a"}
FirstIn(title, words) ==
    LET hits == {i \in 1..Len(title) : title[i] \in words}
    IN  IF hits = {} THEN NULL
        ELSE Some(<<title[CHOOSE i \in hits : \A j \in hits : i <= j]>>)
LastPart(title) ==
    LET seps == {i \in 2..(Len(title) - 1) : title[i] = "-"}
    IN  IF seps = {} THEN NULL
        ELSE LET k == CHOOSE i \in seps : \A j \in seps : j <= i
                 part == SubSeq(title, k + 1, Len(title))
             IN  IF \E i \in 1..Len(part) : part[i] \in Domains THEN Some(part) ELSE NULL
extractURL(title, appName) ==
    IF title = <<>> \/ appName = "" \/ appName \notin BrowserApps THEN NULL
    ELSE IF ~IsNull(FirstIn(title, HttpUrls)) THEN FirstIn(title, HttpUrls)
    ELSE IF ~IsNull(LastPart(title)) THEN LastPart(title)
    ELSE FirstIn(title, Domains)

\* getFallbackContext()
getFallbackContext ==
    [app_name |-> Some("Unknown Application"),
     window_title |-> Some(<<"Context capture unavailable">>),
     url |-> NULL]
\* getCurrentContext, after getActiveWindowWithRetry returned w (null when no
\* attempt gave a window): the fallback for null and for data without an owner
\* name, else the context built from the window.
ContextOf(w) ==
    IF IsNull(w) \/ IsNull(w[1].owner) THEN Returned(getFallbackContext)
    ELSE Returned([app_name |-> w[1].owner, window_title |-> Some(w[1].title),
                   url |-> IF ~IsNull(w[1].url) THEN w[1].url
                           ELSE extractURL(w[1].title, w[1].owner[1])])
\* The catch of getCurrentContext: an error thrown by getActiveWindowWithRetry
\* becomes the fallback context.
CaptureRethrows == Threw
CaptureFailed == Returned(getFallbackContext)

\* One more entry in the record of what happened during the call.
Event(kind, n) == Append(capture.events, [kind |-> kind, n |-> n, at |-> capture.clock])

\* An iteration of the loop begins: activeWin() is called and raced against a
\* timer of TimeoutSecs.
StartAttempt(c, n) ==
    [c EXCEPT !.pc = "racing",
              !.attempt = n,
              !.pending = c.pending \cup {n},
              !.timers = c.timers \cup {[n |-> n, due |-> c.clock + TimeoutSecs]},
              !.backoff = NULL,
              !.events = Append(c.events, [kind |-> "call", n |-> n, at |-> c.clock])]
\* The call ends with the value r.
Finish(c, r) == [c EXCEPT !.pc = "done", !.result = Some(r)]
\* The race of attempt n was lost (timeout) or its promise rejected: wait
\* BackoffSecs when another attempt is left, else the error is thrown on.
AttemptFailed(c) ==
    IF c.attempt < MaxRetries - 1
    THEN [c EXCEPT !.pc = "backoff", !.backoff = Some(c.clock + BackoffSecs)]
    ELSE Finish(c, CaptureFailed)
\* The race gave a falsy value (no active window): the loop goes on at once,
\* and after the last iteration the method returns null.
AttemptEmpty(c) ==
    IF c.attempt + 1 < MaxRetries THEN StartAttempt(c, c.attempt + 1)
    ELSE Finish(c, ContextOf(NULL))

\* getCurrentContext() is called.
getCurrentContext ==
    /\ capture.pc = "idle"
    /\ capture' = StartAttempt(capture, 0)
    /\ UNCHANGED <<dbVars, envVars, gateway, requests, created, last>>

\* The activeWin() promise of attempt n settles: with a window, with undefined
\* (answer = NULL), or by rejecting.  It counts only when it is the race the
\* method is waiting for.
PlatformAnswersAlsoLate(n, answer) ==
    /\ n \in capture.pending
    /\ LET c == [capture EXCEPT !.pending = capture.pending \ {n}]
       IN  capture' =
             IF IsNull(answer)
             THEN AttemptEmpty([c EXCEPT !.events = Event("empty", n)])
             ELSE Finish([c EXCEPT !.events = Event("window", n), !.window = answer],
                         ContextOf(answer))
    /\ UNCHANGED <<dbVars, envVars, gateway, requests, created, last>>
PlatformAnswers(n, answer) ==
    /\ n \in capture.pending
    /\ LET c == [capture EXCEPT !.pending = capture.pending \ {n}]
           live == capture.pc = "racing" /\ capture.attempt = n
       IN  capture' =
             IF ~live THEN [c EXCEPT !.events = Event("late", n)]
             ELSE IF IsNull(answer)
             THEN AttemptEmpty([c EXCEPT !.events = Event("empty", n)])
             ELSE Finish([c EXCEPT !.events = Event("window", n), !.window = answer],
                         ContextOf(answer))
    /\ UNCHANGED <<dbVars, envVars, gateway, requests, created, last>>
PlatformRejects(n) ==
    /\ n \in capture.pending
    /\ LET c == [capture EXCEPT !.pending = capture.pending \ {n}]
           live == capture.pc = "racing" /\ capture.attempt = n
       IN  capture' =
             IF ~live THEN [c EXCEPT !.events = Event("late", n)]
             ELSE AttemptFailed([c EXCEPT !.events = Event("error", n)])
    /\ UNCHANGED <<dbVars, envVars, gateway, requests, created, last>>

\* The timer of attempt n fires when it is due: it rejects the race when the
\* method is still waiting for it, and has no effect otherwise.
TimeoutFiresNever(n) == FALSE /\ UNCHANGED vars
TimeoutFires(n) ==
    /\ [n |-> n, due |-> capture.clock] \in capture.timers
    /\ LET c == [capture EXCEPT !.timers = capture.timers \ {[n |-> n, due |-> capture.clock]}]
           live == capture.pc = "racing" /\ capture.attempt = n
       IN  capture' =
             IF ~live THEN c
             ELSE AttemptFailed([c EXCEPT !.events = Event("timeout", n)])
    /\ UNCHANGED <<dbVars, envVars, gateway, requests, created, last>>

\* The wait before the next attempt is over.
BackoffEnds ==
    /\ capture.pc = "backoff"
    /\ capture.backoff = Some(capture.clock)
    /\ capture' = StartAttempt(capture, capture.attempt + 1)
    /\ UNCHANGED <<dbVars, envVars, gateway, requests, created, last>>

\* A second passes; no timer that is due is passed over.
Elapse ==
    /\ capture.pc # "idle"
    /\ capture.clock < MaxClock
    /\ \A t \in capture.timers : t.due > capture.clock
    /\ capture.backoff # Some(capture.clock)
    /\ capture' = [capture EXCEPT !.clock = capture.clock + 1]
    /\ UNCHANGED <<dbVars, envVars, gateway, requests, created, last>>

\* --------------------------------------------------------------- AI service
\* A text is a sequence of tokens (characters, or words that stand for a run of
\* characters).  The texts the service itself produces:
NoRecordsToday == <<"no records today">>
DigestApology == <<"digest failed, try later">>
ChatApology == <<"sorry, cannot handle the request now">>
SummaryFailed == <<"summary failed">>

\* The body of a provider's answer, as far as callOpenAI / callQwen look into it:
\* data.choices and data.output.choices, each absent, or a list that is empty,
\* or whose first element has no message, or has a message with content c.
Choices(c) ==
    {NULL, Some(<<>>), Some(<<[message |-> NULL]>>),
     Some(<<[message |-> Some([content |-> c])]>>)}
Envelopes(c) ==
    {[output |-> o, choices |-> ch] :
        o \in {NULL} \cup {Some([choices |-> x]) : x \in Choices(c)},
        ch \in Choices(c)}
\* What fetch and response.json() can give: a network rejection, a status that
\* is not ok, a body that is not JSON, or a body.
Outcomes(contents) ==
    {[kind |-> k, data |-> NULL] : k \in {"rejected", "not ok", "not json"}}
        \cup {[kind |-> "json", data |-> Some(d)] :
                 d \in UNION {Envelopes(c) : c \in contents}}

\* choices[0]?.message?.content || fallback, for a list of choices.
FirstContent(list) ==
    IF list = <<>> THEN SummaryFailed
    ELSE IF IsNull(list[1].message) THEN SummaryFailed
    ELSE IF list[1].message[1].content = <<>> THEN SummaryFailed
    ELSE list[1].message[1].content
\* callOpenAI after fetch: throws unless the status is ok and the body is JSON;
\* data.choices[0] throws when data has no choices.
callOpenAI(outcome) ==
    IF outcome.kind # "json" THEN Threw
    ELSE IF IsNull(outcome.data[1].choices) THEN Threw
    ELSE Returned(FirstContent(outcome.data[1].choices[1]))
\* callQwen after fetch: data.output?.choices?.[0]?.message?.content || fallback.
callQwen(outcome) ==
    IF outcome.kind # "json" THEN Threw
    ELSE IF IsNull(outcome.data[1].output) THEN Returned(SummaryFailed)
    ELSE IF IsNull(outcome.data[1].output[1].choices) THEN Returned(SummaryFailed)
    ELSE Returned(FirstContent(outcome.data[1].output[1].choices[1]))

\* callLLM(prompt): dispatches on the provider name; an unknown name throws
\* before any request.  Sends says whether fetch is called.
Sends(config) == config.provider \in {"openai", "qwen"}
callLLM(config, outcome) ==
    IF config.provider = "openai" THEN callOpenAI(outcome)
    ELSE IF config.provider = "qwen" THEN callQwen(outcome)
    ELSE Threw

\* new AIService(config)
NewAIService(config) ==
    /\ gateway.config = NULL
    /\ gateway' = [gateway EXCEPT !.config = Some(config)]
    /\ Log("AIService", config, Returned(<<>>))
    /\ UNCHANGED <<dbVars, envVars, capture, requests, created>>

\* A public method of the service has run and returned ret; sent says whether
\* it got as far as fetch.
ServiceReady == gateway.config # NULL /\ gateway.calls < MaxCalls
ServiceCall(op, input, outcome, sent, ret) ==
    /\ ServiceReady
    /\ gateway' = [gateway EXCEPT !.requests = IF sent THEN @ + 1 ELSE @,
                                  !.calls = @ + 1]
    /\ Log(op, [config |-> gateway.config[1], input |-> input, outcome |-> outcome],
           Returned(ret))
    /\ UNCHANGED <<dbVars, envVars, capture, requests, created>>

\* generateDailyDigest(notes): no call for an empty list; the provider's text,
\* or the apology when callLLM throws.
generateDailyDigest(noteTexts, outcome) ==
    LET r == callLLM(gateway.config[1], outcome)
    IN  ServiceCall("generateDailyDigest", noteTexts, outcome,
                    noteTexts # <<>> /\ Sends(gateway.config[1]),
                    IF noteTexts = <<>> THEN NoRecordsToday
                    ELSE IF r.threw THEN DigestApology
                    ELSE r.ret)

\* validateConfig(): true when the answer to the test prompt contains the word
\* for "normal" (alone or inside "config normal"); false when callLLM throws.
validateConfig(outcome) ==
    LET r == callLLM(gateway.config[1], outcome)
    IN  ServiceCall("validateConfig", <<>>, outcome, Sends(gateway.config[1]),
                    IF r.threw THEN FALSE
                    ELSE \E i \in 1..Len(r.ret) : r.ret[i] \in {"config normal", "normal"})

\* optimizeContent: the clean-up of the provider's text, for texts over the
\* characters a, space, #, double quote and square brackets (no other pattern
\* of the clean-up matches such a text).
\* replace(/^["']|["']$/g, '')
StripQuotes(s) ==
    LET s1 == IF s # <<>> /\ Head(s) \in {"\"", "'"} THEN Tail(s) ELSE s
    IN  IF s1 # <<>> /\ s1[Len(s1)] \in {"\"", "'"} THEN SubSeq(s1, 1, Len(s1) - 1)
        ELSE s1
\* trim()
RECURSIVE Trim(_)
Trim(s) ==
    IF s = <<>> THEN s
    ELSE IF Head(s) = " " THEN Trim(Tail(s))
    ELSE IF s[Len(s)] = " " THEN Trim(SubSeq(s, 1, Len(s) - 1))
    ELSE s
\* replace(/^#{1,6}\s*/gm, ''): up to six # at the start, and the space after.
RECURSIVE DropLeading(_, _, _)
DropLeading(s, chars, most) ==
    IF s # <<>> /\ most > 0 /\ Head(s) \in chars THEN DropLeading(Tail(s), chars, most - 1)
    ELSE s
StripHeading(s) ==
    IF s # <<>> /\ Head(s) = "#" THEN DropLeading(DropLeading(s, {"#"}, 6), {" "}, Len(s))
    ELSE s
\* replace(/\[(.*?)\]/g, '$1'): each [ with the nearest ] after it loses both.
RECURSIVE StripBrackets(_)
StripBrackets(s) ==
    LET closing == {j \in 2..Len(s) : s[j] = "]"}
    IN  IF s = <<>> THEN s
        ELSE IF Head(s) = "[" /\ closing # {}
        THEN LET j == CHOOSE k \in closing : \A m \in closing : k <= m
             IN  SubSeq(s, 2, j - 1) \o StripBrackets(SubSeq(s, j + 1, Len(s)))
        ELSE <<Head(s)>> \o StripBrackets(Tail(s))
Sanitize(s) == Trim(StripBrackets(StripHeading(Trim(StripQuotes(s)))))
\* optimizeContent(rawContent): the cleaned text, or rawContent when anything
\* in the try throws.
optimizeContent(rawContent, outcome) ==
    LET r == callLLM(gateway.config[1], outcome)
    IN  ServiceCall("optimizeContent", rawContent, outcome, Sends(gateway.config[1]),
                    IF r.threw THEN rawContent ELSE Sanitize(r.ret))

\* The assistant's answer as tokens: prose, braces, and the members of a JSON
\* object (a member token stands for "key": value with its separator).
MemberTokens == {"message: hi", "actions: [create]", "actions: [launch]"}
MemberValue(token) ==
    CASE token = "message: hi" -> <<"hi">>
      [] token = "actions: [create]" -> <<[type |-> "create", params |-> <<>>]>>
      [] token = "actions: [launch]" -> <<[type |-> "launch", params |-> <<>>]>>
\* JSON.parse of text that starts with { and ends with }: an object when all
\* between is members (the last member of a key wins), else a SyntaxError
\* (NULL).
LastMember(inner, tokens) ==
    LET hits == {i \in 1..Len(inner) : inner[i] \in tokens}
    IN  IF hits = {} THEN NULL
        ELSE Some(MemberValue(inner[CHOOSE i \in hits : \A j \in hits : j <= i]))
ParseObject(match) ==
    LET inner == SubSeq(match, 2, Len(match) - 1)
    IN  IF \A i \in 1..Len(inner) : inner[i] \in MemberTokens
        THEN Some([message |-> LastMember(inner, {"message: hi"}),
                   actions |-> LastMember(inner, MemberTokens \ {"message: hi"})])
        ELSE NULL
\* response.match(/\{[\s\S]*\}/): from the first { to the last }.
GreedyMatch(response) ==
    LET opens == {i \in 1..Len(response) : response[i] = "{"}
        closes == {i \in 1..Len(response) : response[i] = "}"}
    IN  IF opens = {} \/ closes = {} THEN NULL
        ELSE LET i == CHOOSE k \in opens : \A m \in opens : k <= m
                 j == CHOOSE k \in closes : \A m \in closes : m <= k
             IN  IF i < j THEN Some(SubSeq(response, i, j)) ELSE NULL
\* parseAssistantResponse(response)
parseAssistantResponse(response) ==
    LET match == GreedyMatch(response)
        parsed == ParseObject(match[1])
    IN  IF IsNull(match) \/ IsNull(parsed) THEN [message |-> response, actions |-> <<>>]
        ELSE [message |-> IF IsNull(parsed[1].message) \/ parsed[1].message = Some(<<>>)
                          THEN response ELSE parsed[1].message[1],
              actions |-> IF IsNull(parsed[1].actions) THEN <<>>
                          ELSE parsed[1].actions[1]]
\* processAssistantChat(userInput, notes)
processAssistantChat(userInput, outcome) ==
    LET r == callLLM(gateway.config[1], outcome)
    IN  ServiceCall("processAssistantChat", userInput, outcome, Sends(gateway.config[1]),
                    IF r.threw THEN [message |-> ChatApology, actions |-> <<>>]
                    ELSE parseAssistantResponse(r.ret))

\* ------------------------------------------------------ create-note handler
\* The handler of create-note is invoked by a caller: it calls
\* contextCapture.getCurrentContext() and awaits the result, so that other
\* handlers run in between.
createNoteHandler(caller, input) ==
    /\ requests[caller].pc = "idle"
    /\ requests' = [requests EXCEPT ![caller] =
                        [pc |-> "capturing", input |-> Some(input), response |-> NULL]]
    /\ UNCHANGED <<dbVars, envVars, capture, gateway, created, last>>

\* The await is over with the outcome `captured` of getCurrentContext: the
\* handler calls db.createNote({...input, context: context || undefined}) and
\* answers success with the note; an exception of either call is answered with
\* success: false.
createNoteResumes(caller, captured) ==
    LET input == [requests[caller].input[1] EXCEPT
                     !.context = IF captured.threw THEN NULL ELSE Some(captured.ret)]
        row == NewRow(input)
        failed == captured.threw \/ StmtThrows \/ \E r \in notes : r.id = row.id
        response == IF failed THEN [success |-> FALSE, data |-> NULL]
                    ELSE [success |-> TRUE,
                          data |-> Some([row EXCEPT !.tags = IF IsNull(input.tags) THEN <<>>
                                                             ELSE input.tags[1]])]
    IN  /\ requests[caller].pc = "capturing"
        /\ failed \/ idSeq < MaxCreates
        /\ IF failed
           THEN UNCHANGED <<notes, idSeq, created>>
           ELSE /\ notes' = notes \cup {row}
                /\ idSeq' = idSeq + 1
                /\ created' = [ids |-> created.ids \cup {row.id},
                               latest |-> Some(row.created_at)]
        /\ requests' = [requests EXCEPT ![caller] =
                            [pc |-> "done", input |-> requests[caller].input,
                             response |-> Some(response)]]
        /\ Log("create-note", input, Returned(response))
        /\ UNCHANGED <<settings, custom_tags, open, now, ticks, tz, saved_digests,
                       capture, gateway>>

\* ------------------------------------------------------- AI configuration
\* The handler of set-ai-config: setSetting of ai_provider and ai_api_key, and
\* of ai_model when config.model is truthy; then this.aiService = new
\* AIService(config) and validateConfig(), whose result is the data of the
\* answer.  setSetting does nothing on a closed connection.
setAIConfig(config, outcome) ==
    LET key == config.api_key
        written == {"ai_provider", "ai_api_key"}
                       \cup (IF IsNull(config.model) \/ config.model = Some("")
                             THEN {} ELSE {"ai_model"})
        r == callLLM(config, outcome)
        isValid == IF r.threw THEN FALSE
                   ELSE \E i \in 1..Len(r.ret) : r.ret[i] \in {"config normal", "normal"}
    IN  /\ gateway.calls < MaxSets
        /\ settings' = IF ~isConnectionOpen \/ StmtThrows THEN settings
                       ELSE [k \in DOMAIN settings \cup written |->
                                IF k \notin written THEN settings[k]
                                ELSE IF k = "ai_provider" THEN config.provider
                                ELSE IF k = "ai_api_key" THEN key
                                ELSE config.model[1]]
        /\ gateway' = [config |-> Some(config),
                       requests |-> IF Sends(config) THEN gateway.requests + 1
                                    ELSE gateway.requests,
                       calls |-> gateway.calls + 1]
        /\ Log("set-ai-config", [config |-> config, outcome |-> outcome],
               Returned([success |-> TRUE, data |-> isValid]))
        /\ UNCHANGED <<notes, custom_tags, saved_digests, open, envVars, capture, requests, created>>

\* The handler of get-ai-config: the three settings as getSetting returns them;
\* no configuration when the provider or the key is falsy.
getAIConfig ==
    LET get(key) == IF ~isConnectionOpen \/ StmtThrows THEN NULL
                    ELSE IF StoredValue(key) = Some("") THEN NULL
                    ELSE StoredValue(key)
    IN  /\ Log("get-ai-config", <<>>,
               Returned([success |-> TRUE,
                         data |-> IF IsNull(get("ai_provider")) \/ IsNull(get("ai_api_key"))
                                  THEN NULL
                                  ELSE Some([provider |-> get("ai_provider")[1],
                                             api_key |-> get("ai_api_key")[1],
                                             model |-> get("ai_model")])]))
        /\ UNCHANGED <<dbVars, envVars, created, appVars>>

\* ------------------------------------------------------------ specifications
\* What callers pass.
Texts == {<<"x">>}
Statuses == {"new", "ongoing", "closed"}
Ids == 1..MaxCreates
PlainInput(text) ==
    [text |-> text, type_hint |-> NULL, tags |-> NULL, project_tag |-> NULL,
     context |-> NULL]
\* The clock advances by one tick, or by the length of the retention window.
TickSteps == {1, RetentionDays * DayLen}

\* The life of notes: creation, status changes, deletion, retention cleanup,
\* the day's notes and shutdown, while the clock advances.
Next ==
    \/ \E d \in TickSteps : Tick(d)
    \/ \E text \in Texts : createNote(PlainInput(text))
    \/ \E id \in Ids : deleteNote(id)
    \/ \E id \in Ids, status \in Statuses : updateNoteStatus(id, status)
    \/ getTodayNotes
    \/ cleanupCompletedNotes
    \/ close
Spec == Init /\ [][Next]_vars

\* Tags: the strings callers use as tags (one of them made of the characters
\* JSON escapes or uses as punctuation) and the lists they pass.
TagStrings == {<<"a">>, <<"\"", ",", "\\">>}
TagLists == UNION {[1..n -> TagStrings] : n \in 0..MaxTags}
OptTagLists == {NULL} \cup {Some(t) : t \in TagLists}
TaggedInput(tags) ==
    [text |-> <<"x">>, type_hint |-> NULL, tags |-> tags, project_tag |-> NULL,
     context |-> NULL]
InitUTC == Init /\ tz = 0
\* The tags of one note: a note is created while the table is empty; the calls
\* name its id and ids that no note has.
NextTags ==
    \/ notes = {} /\ \E tags \in OptTagLists : createNote(TaggedInput(tags))
    \/ \E id \in Ids, tags \in TagLists : updateNoteTags(id, tags)
    \/ \E id \in Ids, tags \in OptTagLists : updateNoteWithTags(id, <<"y">>, tags)
    \/ close
SpecTags == InitUTC /\ [][NextTags]_vars

\* Settings: the keys and values callers pass.
SettingKeys == {"ai_provider", "ai_model"}
SettingValues == {"", "openai", "qwen"}
NextSettings ==
    \/ \E key \in SettingKeys, value \in SettingValues : setSetting(key, value)
    \/ \E key \in SettingKeys : getSetting(key)
    \/ close
SpecSettings == InitUTC /\ [][NextSettings]_vars

\* Custom tags: names that differ only in case, with and without a colour.
TagNames == {"Work", "work"}
TagColors == {NULL, Some("#FF0000")}
NextCustomTags ==
    \/ \E name \in TagNames, color \in TagColors : createCustomTag(name, color)
    \/ \E id \in Ids : deleteCustomTag(id)
    \/ \E name \in TagNames : incrementTagUsage(name)
    \/ getCustomTags
    \/ close
SpecCustomTags == InitUTC /\ [][NextCustomTags]_vars

\* The classifier: one note is created from a text of up to MaxWords words, some
\* of them markers in upper or mixed case, with or without a type given by the
\* caller.
ClassifierWords == {"TODO", "later", "Risk", "IDEA", "kaixin", "plain"}
ClassifierTexts == UNION {[1..n -> ClassifierWords] : n \in 0..MaxWords}
HintedInput(text, hint) ==
    [text |-> text, type_hint |-> hint, tags |-> NULL, project_tag |-> NULL,
     context |-> NULL]
NextClassifier ==
    \/ /\ notes = {}
       /\ \E text \in ClassifierTexts, hint \in {NULL, Some("")} :
              createNote(HintedInput(text, hint))
    \/ close
SpecClassifier == InitUTC /\ [][NextClassifier]_vars

\* Context capture: one getCurrentContext call, with every answer and every
\* timing of the platform.
NextCapture ==
    \/ getCurrentContext
    \/ \E n \in 0..(MaxRetries - 1) :
           \/ \E w \in Windows : PlatformAnswers(n, Some(w))
           \/ PlatformAnswers(n, NULL)
           \/ PlatformRejects(n)
           \/ TimeoutFires(n)
    \/ BackoffEnds
    \/ Elapse
SpecCapture == InitUTC /\ [][NextCapture]_vars

\* The AI service: every configuration, every method, every answer of the
\* provider.
Configs ==
    {[provider |-> p, api_key |-> k, model |-> m] :
        p \in {"openai", "qwen", "claude"}, k \in {"", "sk-1"}, m \in {NULL, Some("qwen-max")}}
ContentChars == {"a", " ", "#", "\"", "[", "]"}
Contents == UNION {[1..n -> ContentChars] : n \in 0..MaxContent}
RawContents == {<<>>, <<"a">>, <<"#", "a">>}
ShortAnswers == {<<>>, <<"normal">>, <<"p", "{", "message: hi", "}">>}
NextGateway ==
    \/ \E config \in Configs : NewAIService(config)
    \/ /\ ServiceReady
       /\ \/ \E noteTexts \in {<<>>, <<<<"x">>>>}, outcome \in Outcomes(ShortAnswers) :
                 generateDailyDigest(noteTexts, outcome)
          \/ \E outcome \in Outcomes(ShortAnswers) : validateConfig(outcome)
          \/ \E rawContent \in RawContents, outcome \in Outcomes(Contents) :
                 optimizeContent(rawContent, outcome)
          \/ \E outcome \in Outcomes(ShortAnswers) :
                 processAssistantChat(<<"x">>, outcome)
SpecGateway == InitUTC /\ [][NextGateway]_vars

\* The assistant: a configured service and every answer text of up to MaxRaw
\* tokens, in a well-formed body or with the provider failing.
RawTokens == {"p", "{", "}"} \cup MemberTokens
RawTexts == UNION {[1..n -> RawTokens] : n \in 0..MaxRaw}
QwenBody(c) ==
    [output |-> Some([choices |-> Some(<<[message |-> Some([content |-> c])]>>)]),
     choices |-> NULL]
AssistantOutcomes ==
    {[kind |-> k, data |-> NULL] : k \in {"rejected", "not ok", "not json"}}
        \cup {[kind |-> "json", data |-> Some(QwenBody(c))] : c \in RawTexts}
NextAssistant ==
    \/ NewAIService([provider |-> "qwen", api_key |-> "sk-1", model |-> NULL])
    \/ /\ ServiceReady
       /\ \E outcome \in AssistantOutcomes : processAssistantChat(<<"x">>, outcome)
SpecAssistant == InitUTC /\ [][NextAssistant]_vars

\* Shutdown: every table gets rows, the store is closed (more than once), and
\* every mutation is called before and after.
DigestDates == {RetentionDays}
DigestSummaries == {<<"s">>}
NextShutdown ==
    \/ \E text \in Texts : createNote(PlainInput(text))
    \/ \E date \in DigestDates, summary \in DigestSummaries : saveDigest(date, summary)
    \/ createCustomTag("Work", NULL)
    \/ setSetting("ai_provider", "qwen")
    \/ close
    \/ \E id \in Ids : deleteNote(id)
    \/ \E id \in Ids : updateNote(id, <<"y">>)
    \/ \E id \in Ids : updateNoteTags(id, <<<<"a">>>>)
    \/ \E id \in Ids : updateNoteStatus(id, "closed")
    \/ \E id \in Ids : updateNoteWithTags(id, <<"y">>, Some(<<>>))
    \/ \E id \in Ids : deleteSavedDigest(id)
    \/ \E id \in Ids : deleteCustomTag(id)
    \/ cleanupCompletedNotes
SpecShutdown == InitUTC /\ [][NextShutdown]_vars

\* Reading notes: notes are created at different instants, their status is set
\* to the strings a caller may pass (updateNoteStatus takes any string), and
\* getNotes is called with and without a limit and an offset.
StatusStrings == Statuses \cup {"archived", ""}
OptCounts == {NULL} \cup {Some(n) : n \in 0..MaxCreates}
NextNotes ==
    \/ Tick(1)
    \/ \E text \in Texts : createNote(PlainInput(text))
    \/ \E id \in Ids, status \in StatusStrings : updateNoteStatus(id, status)
    \/ \E limit \in OptCounts, offset \in OptCounts : getNotes(limit, offset)
    \/ close
SpecNotes == InitUTC /\ [][NextNotes]_vars

\* The AI configuration: it is set up to MaxSets times, with every
\* configuration and every answer of the provider to the test prompt, and read
\* back; the store may be closed.
NextConfig ==
    \/ /\ gateway.calls < MaxSets
       /\ \E config \in Configs, outcome \in Outcomes(ShortAnswers) :
              setAIConfig(config, outcome)
    \/ getAIConfig
    \/ close
SpecConfig == InitUTC /\ [][NextConfig]_vars

\* Saved digests: digests are saved for two dates at different instants,
\* deleted, and looked up by date.
NextDigests ==
    \/ Tick(1)
    \/ \E date \in DigestDates \cup {RetentionDays + 1}, summary \in DigestSummaries :
           saveDigest(date, summary)
    \/ \E id \in Ids : deleteSavedDigest(id)
    \/ \E date \in DigestDates \cup {RetentionDays + 1} : getSavedDigestByDate(date)
    \/ close
SpecDigests == InitUTC /\ [][NextDigests]_vars

\* Concurrent creation: every caller invokes create-note before the capture of
\* any of them ends; the captures then end in any order, with the fallback
\* context or the context of a window, while the clock advances or not.
CapturedContexts ==
    {getFallbackContext,
     [app_name |-> Some("Safari"), window_title |-> Some(<<"Docs">>), url |-> NULL]}
NextCreate ==
    \/ Tick(1)
    \/ \E caller \in Callers, text \in Texts : createNoteHandler(caller, PlainInput(text))
    \/ /\ \A caller \in Callers : requests[caller].pc # "idle"
       /\ \E caller \in Callers, context \in CapturedContexts :
              createNoteResumes(caller, Returned(context))
    \/ \E limit \in OptCounts : getNotes(limit, NULL)
SpecCreate == InitUTC /\ [][NextCreate]_vars

\* One create-note request with the context capture behind it: the platform
\* answers in time, late or never, with a window, with nothing or with an
\* error.  Time passes, timers that are due fire, and a handler whose await is
\* over runs.
NextCreateLive ==
    \/ createNoteHandler(1, PlainInput(<<"x">>))
    \/ requests[1].pc # "idle" /\ NextCapture
    \/ capture.pc = "done" /\ createNoteResumes(1, capture.result[1])
SpecCreateLive ==
    /\ InitUTC
    /\ [][NextCreateLive]_vars
    /\ WF_vars(requests[1].pc # "idle" /\ getCurrentContext)
    /\ WF_vars(Elapse)
    /\ WF_vars(BackoffEnds)
    /\ \A n \in 0..(MaxRetries - 1) : WF_vars(TimeoutFires(n))
    /\ WF_vars(capture.pc = "done" /\ createNoteResumes(1, capture.result[1]))

\* The fields of a note over its life: notes are created with a captured
\* context; the first of them is edited, tagged and given a status, any of
\* them is deleted, old closed ones are cleaned up, while digests and settings
\* are written and the clock advances.
NextFrame ==
    \/ Tick(RetentionDays * DayLen + 1)
    \/ \E context \in CapturedContexts \ {getFallbackContext} :
           createNote([PlainInput(<<"x">>) EXCEPT !.context = Some(context)])
    \/ updateNote(1, <<"y">>)
    \/ updateNoteTags(1, <<<<"a">>>>)
    \/ updateNoteWithTags(1, <<"y">>, Some(<<<<"a">>>>))
    \/ updateNoteStatus(1, "closed")
    \/ \E id \in Ids : deleteNote(id)
    \/ cleanupCompletedNotes
    \/ \E date \in DigestDates, summary \in DigestSummaries : saveDigest(date, summary)
    \/ setSetting("ai_provider", "qwen")
SpecFrame == InitUTC /\ [][NextFrame]_vars

\* -------------------------------------------------------------------- claims
RetentionTicks == RetentionDays * DayLen
Age(r) == now - IsoInstant(r.created_at)
ClosedAndOld(r) == r.status = Some("closed") /\ Age(r) > RetentionTicks
IdsOf(q) == {q[i].id : i \in 1..Len(q)}

\* C1: on an open store, cleanupCompletedNotes() leaves exactly the notes that
\* were not both closed and created more than seven days before the call.
C1_CleanupRemovesExactlyClosedOlderThanSevenDays ==
    [][(last'.op = "cleanupCompletedNotes" /\ open)
        => notes' = {r \in notes : ~ClosedAndOld(r)}]_vars
\* A cleanup has removed a note while a closed note not yet seven days old stayed.
C1_Witness ==
    /\ last.op = "cleanupCompletedNotes"
    /\ open
    /\ last.res.ret.deletedCount > 0
    /\ \E r \in notes : r.status = Some("closed") /\ Age(r) <= RetentionTicks

\* C2: on an open store, a cleanupCompletedNotes() that directly follows another
\* one, with no clock advance, returns {success: true, deletedCount: 0} and
\* leaves the notes as they are; a call that selects no note returns success
\* with deletedCount 0 and does not throw.
C2_CleanupIdempotent ==
    [][(last'.op = "cleanupCompletedNotes" /\ open)
        => /\ ~last'.res.threw
           /\ (last.op = "cleanupCompletedNotes" \/ ~\E r \in notes : ClosedAndOld(r))
                => /\ last'.res.ret = [success |-> TRUE, deletedCount |-> 0]
                   /\ notes' = notes]_vars
\* A second cleanup in a row has returned, after notes had been removed.
C2_Witness ==
    /\ last.op = "cleanupCompletedNotes"
    /\ last.again
    /\ open
    /\ last.res.ret = [success |-> TRUE, deletedCount |-> 0]
    /\ Cardinality(notes) < Cardinality(created.ids)

\* C3: every note createNote stores has an id no earlier note had, and a
\* created_at not before that of the note created before it.
C3_FreshIdAndMonotoneCreatedAt ==
    [][(last'.op = "createNote" /\ ~last'.res.threw)
        => /\ last'.res.ret.id \notin created.ids
           /\ ~IsNull(created.latest) =>
                 IsoInstant(created.latest[1]) <= IsoInstant(last'.res.ret.created_at)]_vars
\* A note has been created after an earlier one was deleted and the clock advanced.
C3_Witness ==
    /\ last.op = "createNote"
    /\ ~last.res.threw
    /\ Cardinality(created.ids) >= 2
    /\ Cardinality(notes) < Cardinality(created.ids)
    /\ ticks > 0

\* C4: getTodayNotes() returns exactly the notes whose created_at falls on the
\* local calendar day of the call.
C4_TodayIsLocalDay ==
    (last.op = "getTodayNotes" /\ ~last.res.threw)
        => IdsOf(last.res.ret)
             = {r.id : r \in {x \in notes :
                   LocalDay(IsoInstant(x.created_at), tz) = LocalDay(now, tz)}}

\* C5: a getTodayNotes() that directly follows a successful createNote, at the
\* same instant, returns the note just created.
C5_CreatedNoteIsInToday ==
    [][(/\ last.op = "createNote" /\ ~last.res.threw
        /\ last'.op = "getTodayNotes" /\ ~last'.res.threw)
        => last.res.ret.id \in IdsOf(last'.res.ret)]_vars
\* The day's notes were read at the instant a note was created, in a zone whose
\* local day differs from the UTC day, and the note is among them.
C5_Witness ==
    /\ last.op = "getTodayNotes"
    /\ ~last.res.threw
    /\ LocalDay(now, tz) # DatePart(ToISOString(now))
    /\ \E i \in 1..Len(last.res.ret) : last.res.ret[i].created_at = ToISOString(now)

\* C6: after updateNoteTags(id, t) on a note that exists, the note as fetched
\* has tags equal to t, the empty list included; the same call made again
\* leaves every row as it is.
C6_UpdateNoteTagsRoundTrip ==
    [][(last'.op = "updateNoteTags" /\ ~last'.res.threw /\ last'.res.ret)
        => /\ \E r \in notes' : /\ r.id = last'.arg.id
                                /\ parseNoteRow(r).tags = last'.arg.tags
           /\ (last.op = "updateNoteTags" /\ last.arg = last'.arg) => notes' = notes]_vars
\* The same updateNoteTags call was made twice on a note that exists, with a list
\* of two different tags, one of them made of quote, comma and backslash.
C6_Witness ==
    /\ last.op = "updateNoteTags"
    /\ last.again
    /\ ~last.res.threw
    /\ last.res.ret
    /\ Len(last.arg.tags) = 2
    /\ last.arg.tags[1] # last.arg.tags[2]

\* C7: the tags of a stored note never hold the same string twice.
NoDuplicates(q) == \A i, j \in 1..Len(q) : q[i] = q[j] => i = j
C7_TagsNeverHoldDuplicates ==
    \A r \in notes : NoDuplicates(parseNoteRow(r).tags)

\* C8: on an open store, createCustomTag(name) for a name that exists returns
\* success: false with the duplicate-name error and leaves the table as it is;
\* no two rows have the same name, and getCustomTags() reports no name twice.
C8_CustomTagNamesUnique ==
    [][/\ (last'.op = "createCustomTag" /\ open
             /\ \E t \in custom_tags : t.name = last'.arg.name)
          => /\ last'.res = Returned(DuplicateNameError)
             /\ custom_tags' = custom_tags
       /\ \A t, u \in custom_tags' : t.name = u.name => t = u
       /\ (last'.op = "getCustomTags" /\ ~last'.res.threw)
          => \A i, j \in 1..Len(last'.res.ret) :
                 last'.res.ret[i].name = last'.res.ret[j].name => i = j]_vars
\* A creation was refused as a duplicate while the table holds both spellings.
C8_Witness ==
    /\ last.op = "createCustomTag"
    /\ open
    /\ last.res = Returned(DuplicateNameError)
    /\ Cardinality(custom_tags) = 2

\* C9: once the store is closed it stays closed, setSetting returns without
\* throwing and leaves the settings as they are, and getSetting returns null
\* without throwing.
C9_SettingsAfterClose ==
    [][/\ ~open => ~open'
       /\ (~open /\ last'.op = "setSetting")
          => ~last'.res.threw /\ settings' = settings
       /\ (~open /\ last'.op = "getSetting")
          => last'.res = Returned(NULL)]_vars
\* getSetting was called after close() for a key that holds a value.
C9_Witness ==
    /\ ~open
    /\ last.op = "getSetting"
    /\ last.res = Returned(NULL)
    /\ last.arg.key \in DOMAIN settings
    /\ settings[last.arg.key] # ""

\* C10: on an open store getSetting(k) returns null exactly when no value is
\* stored under k, and the stored value otherwise, the empty string included.
C10_GetSettingReturnsStoredValue ==
    (last.op = "getSetting" /\ open)
        => last.res = Returned(StoredValue(last.arg.key))

\* The persisted data: the rows of the four tables.
Persisted == <<notes, settings, custom_tags, saved_digests>>
MutationOps ==
    {"createNote", "deleteNote", "updateNote", "updateNoteTags", "updateNoteStatus",
     "updateNoteWithTags", "saveDigest", "deleteSavedDigest", "createCustomTag",
     "deleteCustomTag", "cleanupCompletedNotes"}

\* C11: a close() on a store that is already closed does not throw, leaves the
\* store closed and leaves the persisted data as the first close() left it.
C11_CloseIdempotent ==
    [][(last'.op = "close" /\ ~open)
        => /\ ~last'.res.threw
           /\ ~open'
           /\ Persisted' = Persisted]_vars
\* close() was called twice in a row on a store that holds a note and a digest.
C11_Witness ==
    /\ last.op = "close"
    /\ last.again
    /\ ~last.res.threw
    /\ ~open
    /\ notes # {}
    /\ saved_digests # {}

\* C12: after close() the persisted notes, custom tags, digests and settings
\* never change, and every mutation call signals a failure: it throws or it
\* returns success: false.
C12_ClosedStoreIsFrozen ==
    [][~open
        => /\ Persisted' = Persisted
           /\ (last'.op \in MutationOps /\ last' # last)
              => \/ last'.res.threw
                 \/ last'.res.ret.success = FALSE]_vars
\* A mutation was called after close() on a store that holds a note, a digest
\* and a setting.
C12_Witness ==
    /\ ~open
    /\ last.op \in {"updateNoteWithTags", "createCustomTag"}
    /\ notes # {}
    /\ saved_digests # {}
    /\ settings # <<>>

\* The categories in the order the claim gives, and what makes each one match
\* a case-folded text.
CategoryOrder == <<"todo", "issue", "idea", "feeling">>
Fold(text) == [i \in 1..Len(text) |-> ToLowerCase(text[i])]
CategoryMatches(c, folded) ==
    CASE c = "todo" -> \/ Len(folded) > 0 /\ folded[1] = "todo"
                       \/ \E i \in 1..Len(folded) : folded[i] \in TodoMarkers
      [] c = "issue" -> \E i \in 1..Len(folded) : folded[i] \in IssueMarkers
      [] c = "idea" -> \E i \in 1..Len(folded) : folded[i] \in IdeaMarkers
      [] c = "feeling" -> \E i \in 1..Len(folded) : folded[i] \in FeelingMarkers
FirstMatching(folded) ==
    LET hits == {i \in 1..Len(CategoryOrder) : CategoryMatches(CategoryOrder[i], folded)}
    IN  IF hits = {} THEN "note"
        ELSE CategoryOrder[CHOOSE i \in hits : \A j \in hits : i <= j]

\* C13: the type createNote infers for a text is the first of todo, issue, idea,
\* feeling whose marker matches the case-folded text, and note when none does.
C13_FirstMatchingCategoryWins ==
    (last.op = "createNote" /\ ~last.res.threw)
        => last.res.ret.type_hint = Some(FirstMatching(Fold(last.arg.text)))
\* A text with a todo marker after an issue marker and an idea marker, both in
\* upper or mixed case, was classified as todo.
C13_Witness ==
    /\ last.op = "createNote"
    /\ ~last.res.threw
    /\ last.arg.text = <<"Risk", "IDEA", "later">>
    /\ last.res.ret.type_hint = Some("todo")

\* What happened during the call: the attempts that were lost to the timeout
\* or rejected.
FailedAttempts ==
    {capture.events[k].n : k \in {i \in 1..Len(capture.events) :
                                     capture.events[i].kind \in {"timeout", "error"}}}

\* C14: a getCurrentContext call whose platform call timed out or failed on both
\* attempts, or whose platform data has no application name, does not throw and
\* returns the fallback context.
C14_FallbackContext ==
    (capture.pc = "done")
        => /\ capture.result # Some(Threw)
           /\ (FailedAttempts = 0..(MaxRetries - 1)
                 \/ (~IsNull(capture.window) /\ IsNull(capture.window[1].owner)))
              => capture.result
                   = Some(Returned([app_name |-> Some("Unknown Application"),
                                    window_title |-> Some(<<"Context capture unavailable">>),
                                    url |-> NULL]))
\* Both attempts of a call were lost to the timeout, after 3 + 1 + 3 seconds.
C14_Witness ==
    /\ capture.pc = "done"
    /\ Len(capture.events) = 4
    /\ capture.events[2].kind = "timeout"
    /\ capture.events[4].kind = "timeout"
    /\ capture.clock = TimeoutSecs + BackoffSecs + TimeoutSecs
    /\ capture.result = Some(Returned(getFallbackContext))

\* C15: the platform call is made at most twice in a call; a second attempt is
\* made only after the first one timed out or raised an error, and not before
\* the backoff of one second after that; no backoff is waited after the last
\* attempt.
C15_RetryOnceAfterBackoff ==
    LET e == capture.events
        calls == {k \in 1..Len(e) : e[k].kind = "call"}
    IN  /\ Cardinality(calls) <= 2
        /\ \A k \in calls :
               e[k].n > 0
                 => \E j \in 1..(k - 1) :
                        /\ e[j].kind \in {"timeout", "error"}
                        /\ e[j].n = e[k].n - 1
                        /\ e[k].at >= e[j].at + 1
        /\ capture.pc = "backoff" => capture.attempt < 1

\* The provider failed: the name is not a supported one, the request was
\* rejected, the status was not ok, the body was not JSON, or the body lacks
\* the path to a message that the provider's format has.
HasMessage(ch) == ~IsNull(ch) /\ ch[1] # <<>> /\ ~IsNull(ch[1][1].message)
ProviderFailed(arg) ==
    \/ arg.config.provider \notin {"openai", "qwen"}
    \/ arg.outcome.kind # "json"
    \/ /\ arg.config.provider = "openai"
       /\ ~HasMessage(arg.outcome.data[1].choices)
    \/ /\ arg.config.provider = "qwen"
       /\ \/ IsNull(arg.outcome.data[1].output)
          \/ ~HasMessage(arg.outcome.data[1].output[1].choices)

\* C16: when the provider call of optimizeContent(s) fails, the method returns
\* exactly s.
C16_OptimizeReturnsInputOnFailure ==
    (last.op = "optimizeContent" /\ ProviderFailed(last.arg))
        => last.res.ret = last.arg.input

\* The text the provider answered an assistant chat with, and the places of an
\* embedded object with a message and actions, all other tokens being prose.
AnswerText == last.arg.outcome.data[1].output[1].choices[1][1].message[1].content
Embedded(raw, i, j) ==
    /\ i < j
    /\ raw[i] = "{"
    /\ raw[j] = "}"
    /\ \A k \in (i + 1)..(j - 1) : raw[k] \in MemberTokens
    /\ \E k \in (i + 1)..(j - 1) : raw[k] = "message: hi"
    /\ \E k \in (i + 1)..(j - 1) : raw[k] \in MemberTokens \ {"message: hi"}
    /\ \A k \in (1..Len(raw)) \ (i..j) : raw[k] \notin MemberTokens
    /\ Len(raw) > j - i + 1

\* C17: when the provider's text is prose around one embedded object with a
\* message and actions, the result is the message and the actions of that
\* object, also when the prose has braces in it.
C17_EmbeddedObjectIsExtracted ==
    (last.op = "processAssistantChat" /\ last.arg.outcome.kind = "json")
        => \A i, j \in 1..Len(AnswerText) :
               Embedded(AnswerText, i, j)
                 => /\ last.res.ret.message = <<"hi">>
                    /\ last.res.ret.actions
                         = LastMember(SubSeq(AnswerText, i + 1, j - 1),
                                      MemberTokens \ {"message: hi"})[1]

\* C18: processAssistantChat returns a message and a list of actions whose
\* types are all among create, search, delete, update, analyze; when the
\* provider's text holds no well-formed object, the message is the text and
\* there are no actions.
ActionTypes == {"create", "search", "delete", "update", "analyze"}
HoldsObject(raw) ==
    \E i, j \in 1..Len(raw) :
        /\ i < j
        /\ raw[i] = "{"
        /\ raw[j] = "}"
        /\ \A k \in (i + 1)..(j - 1) : raw[k] \in MemberTokens
C18_AssistantResultIsWellFormed ==
    (last.op = "processAssistantChat")
        => /\ ~last.res.threw
           /\ \A k \in 1..Len(last.res.ret.actions) :
                  last.res.ret.actions[k].type \in ActionTypes
           /\ (/\ last.arg.outcome.kind = "json"
               /\ AnswerText # <<>>
               /\ ~HoldsObject(AnswerText))
                 => /\ last.res.ret.message = AnswerText
                    /\ last.res.ret.actions = <<>>

\* C19: no public method of the AI service throws, and when the provider
\* failed each returns its fallback: a failure text, the original content, a
\* message with no actions, false.
ServiceOps == {"generateDailyDigest", "optimizeContent", "processAssistantChat",
               "validateConfig"}
C19_GatewayNeverThrows ==
    (last.op \in ServiceOps)
        => /\ ~last.res.threw
           /\ ProviderFailed(last.arg)
                => CASE last.op = "generateDailyDigest" ->
                            last.arg.input # <<>>
                                => last.res.ret \in {DigestApology, SummaryFailed}
                     [] last.op = "optimizeContent" -> last.res.ret = last.arg.input
                     [] last.op = "processAssistantChat" -> last.res.ret.actions = <<>>
                     [] last.op = "validateConfig" -> last.res.ret = FALSE

\* C20: with a provider name that is not recognized, or with an empty
\* credential, the service never issues an HTTP request.
C20_NoRequestWithoutConfiguration ==
    (/\ gateway.config # NULL
     /\ \/ gateway.config[1].provider \notin {"openai", "qwen"}
        \/ gateway.config[1].api_key = "")
        => gateway.requests = 0

\* C21: every note handed to callers has a status among new, ongoing, closed,
\* whatever calls of createNote and updateNoteStatus came before.
C21_StatusIsOneOfThree ==
    /\ \A r \in notes : parseNoteRow(r).status \in {Some(st) : st \in Statuses}
    /\ (last.op = "getNotes" /\ ~last.res.threw)
          => \A i \in 1..Len(last.res.ret) :
                 last.res.ret[i].status \in {Some(st) : st \in Statuses}

\* C30: getNotes(limit, offset) returns the notes at the positions offset + 1 to
\* offset + limit of the notes in created_at descending order; an absent limit
\* means all that remain, an absent offset means none skipped.
ExpectedPage(q, limit, offset) ==
    LET skip == IF IsNull(offset) THEN 0 ELSE offset[1]
        upto == IF IsNull(limit) \/ skip + limit[1] > Len(q) THEN Len(q)
                ELSE skip + limit[1]
    IN  SubSeq(q, skip + 1, upto)
C30_GetNotesPage ==
    (last.op = "getNotes" /\ ~last.res.threw)
        => \E q \in DescOrders(notes) :
               last.res.ret =
                   [i \in 1..Len(ExpectedPage(q, last.arg.limit, last.arg.offset)) |->
                       parseNoteRow(ExpectedPage(q, last.arg.limit, last.arg.offset)[i])]

\* C22: set-ai-config writes the settings ai_provider, ai_api_key and ai_model
\* only for a configuration that validateConfig has found usable: a call whose
\* validation gave false leaves the settings as they were.
C22_PersistOnlyAfterValidation ==
    [][(last'.op = "set-ai-config" /\ ~last'.res.ret.data) => settings' = settings]_vars

\* C27: after set-ai-config(c), get-ai-config returns the provider, the key and
\* the model of c; when c has no model, none is returned.
C27_ConfigRoundTrip ==
    (last.op = "get-ai-config" /\ gateway.config # NULL /\ open)
        => last.res.ret.data = gateway.config

\* C26: every saveDigest adds an entry of its own, also for a date that has
\* one; getSavedDigestByDate(date) returns an entry of that date with the
\* latest saved_at among those in the table, and nothing when there is none.
C26_LatestDigestOfDate ==
    [][/\ (last'.op = "saveDigest" /\ ~last'.res.threw)
          => /\ last'.res.ret \notin saved_digests
             /\ saved_digests' = saved_digests \cup {last'.res.ret}
       /\ (last'.op = "getSavedDigestByDate" /\ ~last'.res.threw)
          => LET rows == {d \in saved_digests' : d.date = last'.arg.date}
             IN  IF rows = {} THEN last'.res.ret = NULL
                 ELSE /\ last'.res.ret # NULL
                      /\ last'.res.ret[1] \in rows
                      /\ \A d \in rows : ~IsoLess(last'.res.ret[1].saved_at, d.saved_at)]_vars
\* Two digests of one date saved at different instants, the later one returned;
\* and the earlier one returned once the later one is deleted.
C26_Witness ==
    /\ last.op = "getSavedDigestByDate"
    /\ ~last.res.threw
    /\ last.res.ret # NULL
    /\ idSeq = 2
    /\ \/ \E d \in saved_digests :
              /\ d.date = last.arg.date
              /\ IsoLess(d.saved_at, last.res.ret[1].saved_at)
       \/ /\ Cardinality(saved_digests) = 1
          /\ last.res.ret[1].id = 1
          /\ last.res.ret[1].saved_at # ToISOString(now)

\* C29: updateNoteWithTags(id, text, tags?) returns true exactly when a note
\* has that id; then the text and, when given, the tags are both replaced, and
\* no other note changes; for an absent id it returns false and changes
\* nothing, as updateNoteTags does.
C29_UpdateWithTagsReportsExistence ==
    [][(last'.op \in {"updateNoteWithTags", "updateNoteTags"} /\ ~last'.res.threw)
          => LET exists == \E r \in notes : r.id = last'.arg.id
             IN  /\ last'.res.ret = exists
                 /\ ~exists => notes' = notes
                 /\ (exists /\ last'.op = "updateNoteWithTags")
                       => notes' = {IF r.id = last'.arg.id
                                    THEN [r EXCEPT !.text = last'.arg.text,
                                                   !.tags = IF IsNull(last'.arg.tags) THEN r.tags
                                                            ELSE Some(JSONStringify(last'.arg.tags[1]))]
                                    ELSE r : r \in notes}]_vars

\* The promise or the timer of attempt n settles when the method is no longer
\* waiting for the race of attempt n.
SettlesStale(n) ==
    /\ ~(capture.pc = "racing" /\ capture.attempt = n)
    /\ \/ n \in capture.pending \ capture'.pending
       \/ \E t \in capture.timers \ capture'.timers : t.n = n

\* C28: an answer of the platform that comes after the timeout of its attempt,
\* and a timer that fires after its attempt was answered, change neither the
\* context returned nor the course of the call: no further attempt, no wait, no
\* exception; the context of a call that got a window is built from an answer
\* given within TimeoutSecs of its own platform call.
C28_LateEventsAreIgnored ==
    [][/\ \A n \in 0..(MaxRetries - 1) :
              SettlesStale(n)
                => /\ capture'.pc = capture.pc
                   /\ capture'.attempt = capture.attempt
                   /\ capture'.backoff = capture.backoff
                   /\ capture'.window = capture.window
                   /\ capture'.result = capture.result
                   /\ \A i \in 1..Len(capture'.events) :
                          i > Len(capture.events) => capture'.events[i].kind = "late"
       /\ capture'.result # NULL => ~capture'.result[1].threw
       /\ (capture'.pc = "done" /\ capture'.window # NULL)
             => /\ capture'.result = Some(ContextOf(capture'.window))
                /\ \E i, j \in 1..Len(capture'.events) :
                       /\ i < j
                       /\ capture'.events[i].kind = "call"
                       /\ capture'.events[j].kind = "window"
                       /\ capture'.events[i].n = capture'.events[j].n
                       /\ capture'.events[j].at - capture'.events[i].at <= TimeoutSecs
                       /\ \A k \in 1..Len(capture'.events) :
                              capture'.events[k].kind = "window" => k = j]_vars
\* The first attempt timed out and its answer came late, the second attempt got
\* a window, and both timers have fired.
C28_Witness ==
    /\ capture.pc = "done"
    /\ capture.attempt = 1
    /\ capture.window # NULL
    /\ capture.timers = {}
    /\ capture.pending = {}
    /\ \E i \in 1..Len(capture.events) :
           capture.events[i].kind = "late" /\ capture.events[i].n = 0

\* C23: two notes created by callers whose create-note requests were in flight
\* together have different created_at values, so that getNotes() can return
\* them in one order only.
C23_ConcurrentNotesStrictlyOrdered ==
    /\ \A r1, r2 \in notes : r1 # r2 => r1.created_at # r2.created_at
    /\ Cardinality(DescOrders(notes)) = 1

\* C24: a create-note request made while the store is open is answered in the
\* end, whatever the platform does, and its answer is success with exactly one
\* note stored.
C24_CreationCompletes ==
    /\ [](requests[1].pc = "done"
            => /\ requests[1].response[1].success
               /\ Cardinality(notes) = 1
               /\ requests[1].response[1].data[1].id \in {r.id : r \in notes})
    /\ (requests[1].pc = "capturing") ~> (requests[1].pc = "done")
\* The request was answered although the platform answered neither attempt.
C24_Witness ==
    /\ requests[1].pc = "done"
    /\ requests[1].response[1].success
    /\ capture.pending = {0, 1}
    /\ \E r \in notes : r.app_name = Some("Unknown Application")

\* C25: the id, created_at, app_name, window_title and url of a note never
\* change; its status changes only in updateNoteStatus; a note leaves the table
\* only in deleteNote and cleanupCompletedNotes.
C25_NoteFrame ==
    [][\A r \in notes :
          LET after == {q \in notes' : q.id = r.id}
          IN  /\ after = {} => last'.op \in {"deleteNote", "cleanupCompletedNotes"}
              /\ \A q \in after :
                     /\ q.created_at = r.created_at
                     /\ q.app_name = r.app_name
                     /\ q.window_title = r.window_title
                     /\ q.url = r.url
                     /\ q.status # r.status => last'.op = "updateNoteStatus"]_vars
\* A note with a captured context whose text and tags were replaced and whose
\* status was set, after the other note was deleted.
C25_Witness ==
    /\ last.op = "deleteNote"
    /\ idSeq = 2
    /\ \E r \in notes :
           /\ r.app_name = Some("Safari")
           /\ r.text # <<"x">>
           /\ r.tags # NULL
           /\ r.status = Some("closed")

====
